---- MODULE Spec2Model ----
(***************************************************************************)
(* Model of monitor.py: the SSE frame decoding shared by ApiClient.stream  *)
(* and ApiClient.stream_forever, the payload mapping to                    *)
(* TemperatureReading, the reconnecting loop of stream_forever run as a    *)
(* background thread next to a caller that sets the stop event, the        *)
(* bounded call ApiClient.stream, the menu loop that starts and joins the  *)
(* streaming threads, and the monitor's classifications of readings.       *)
(*                                                                         *)
(* Text is modelled as TLA+ strings; a chunk of iter_content(chunk_size=1) *)
(* is a string: one ASCII character, "" (an empty chunk), or the two-digit *)
(* hexadecimal name of a byte >= 0x80, which alone is not valid UTF-8.     *)
(* Temperatures are integers in tenths of a degree (25.5 is 255).          *)
(***************************************************************************)
EXTENDS Integers, Sequences, FiniteSets, TLC

(***************************************************************************)
(* Bounds                                                                  *)
(***************************************************************************)
\* connection attempts one run of stream_forever may make
MaxConns == 2
\* events in a stream fed to the frame decoder
MaxEvents == 3
\* largest stop_after given to stream, and the latest call of on_event
\* that may raise
MaxCount == 2
\* largest timeout given to stream, and the ticks its clock may advance
MaxClock == 2
\* streaming sessions (menu option 2) one run of the menu may start
MaxSessions == 2
\* readings the monitor holds when its listings are printed
MaxReadings == 3

(***************************************************************************)
(* Python str operations used by the decode loop                           *)
(***************************************************************************)
Char(s, i) == SubSeq(s, i, i)

\* str.strip() removes these (the ASCII whitespace the wire can carry)
IsSpace(c) == c \in {" ", "\t", "\n", "\r"}

\* str.splitlines() breaks a line at these; "\r\n" is one break
IsLineBreak(c) == c \in {"\n", "\r"}

\* the element of a one-element set; {e(v) : v \in {x}} computes x once,
\* however often e uses it
Only(S) == CHOOSE x \in S : TRUE

\* smallest and largest element of a non-empty set of integers
Min(S) == CHOOSE m \in S : \A x \in S : m <= x
Max(S) == CHOOSE m \in S : \A x \in S : m >= x

LStrip(s) ==
  SubSeq(s, Min({i \in 1..Len(s) : ~IsSpace(Char(s, i))} \cup {Len(s) + 1}), Len(s))

RStrip(s) ==
  SubSeq(s, 1, Max({i \in 1..Len(s) : ~IsSpace(Char(s, i))} \cup {0}))

Strip(s) == RStrip(LStrip(s))

StartsWith(s, p) == Len(s) >= Len(p) /\ SubSeq(s, 1, Len(p)) = p

EndsWith(s, p) == Len(s) >= Len(p) /\ SubSeq(s, Len(s) - Len(p) + 1, Len(s)) = p

\* position i of s ends a line break ("\r\n" is one break, ended by its "\n")
EndsBreak(s, i) ==
  \/ Char(s, i) = "\n"
  \/ Char(s, i) = "\r" /\ ~(i < Len(s) /\ Char(s, i + 1) = "\n")

\* positions of s at which a line starts; a trailing line break opens no line
LineStarts(s) == {p \in 1..Len(s) : p = 1 \/ EndsBreak(s, p - 1)}

\* position of the first line break character at or after p, or Len(s) + 1
LineEnd(s, p) == Min({j \in p..Len(s) : IsLineBreak(Char(s, j))} \cup {Len(s) + 1})

\* str.splitlines(): the lines of s in order, without their line breaks
SplitLines(s) ==
  [k \in 1..Cardinality(LineStarts(s)) |->
     LET p == CHOOSE q \in LineStarts(s) :
                Cardinality({r \in LineStarts(s) : r < q}) = k - 1
     IN  SubSeq(s, p, LineEnd(s, p) - 1)]

(***************************************************************************)
(* Frame decoding (stream lines 113-119 and 127, stream_forever lines      *)
(* 154-159 and 166)                                                        *)
(***************************************************************************)
\* the terminator looked for anywhere in the buffer: if "\n\n" in buffer
FrameCompleteAnywhere(buf) ==
  \E i \in 1..Len(buf) - 1 : SubSeq(buf, i, i + 1) = "\n\n"

\* if buffer.endswith("\n\n")
FrameComplete(buf) == EndsWith(buf, "\n\n")

\* lines = [ln for ln in buffer.splitlines() if ln.strip() != ""]
NonBlankLines(buf) == SelectSeq(SplitLines(buf), LAMBDA ln : Strip(ln) # "")

\* payload = ln[len("data:"):].strip()
Payload(ln) == Strip(SubSeq(ln, Len("data:") + 1, Len(ln)))

\* for ln in lines: if ln.startswith("data:"): payload = ...
DataPayloads(lines) ==
  Only({[k \in DOMAIN d |-> Payload(d[k])] :
          d \in {SelectSeq(lines, LAMBDA ln : StartsWith(ln, "data:"))}})

\* the payloads of the frame held by a buffer that ends with the terminator
FramePayloads(buf) == DataPayloads(NonBlankLines(buf))

\* the decode step without line 166: the buffer is never cleared
FeedNoClear(buf, ch) ==
  Only({[buffer |-> b,
         payloads |-> IF FrameComplete(b) THEN FramePayloads(b) ELSE <<>>] :
          b \in {buf \o ch}})

\* the decode step with line 166 inside "if ln.startswith(...)": the
\* buffer is cleared only by a frame that has a data: line
FeedClearOnData(buf, ch) ==
  Only({IF FrameComplete(b) /\ FramePayloads(b) # <<>>
        THEN [buffer |-> "", payloads |-> FramePayloads(b)]
        ELSE [buffer |-> b, payloads |-> <<>>] : b \in {buf \o ch}})

\* buffer += ch; if the frame is complete, its payloads and buffer = ""
Feed(buf, ch) ==
  Only({IF FrameComplete(b)
        THEN [buffer |-> "", payloads |-> FramePayloads(b)]
        ELSE [buffer |-> b, payloads |-> <<>>] : b \in {buf \o ch}})

(***************************************************************************)
(* Payload mapping (stream lines 120-126, stream_forever lines 160-165)    *)
(***************************************************************************)
JNum(n) == [kind |-> "number", num |-> n, text |-> "", members |-> <<>>]
JStr(t) == [kind |-> "string", num |-> 0, text |-> t, members |-> <<>>]
JNull == [kind |-> "null", num |-> 0, text |-> "", members |-> <<>>]
JObj(m) == [kind |-> "object", num |-> 0, text |-> "", members |-> m]
JError == [kind |-> "error", num |-> 0, text |-> "", members |-> <<>>]

\* json.loads on the payload texts the modelled server sends; any other
\* text these streams can produce is not JSON (JSONDecodeError)
JsonLoads(p) ==
  CASE p = "{\"temperature\": 25.5, \"timestamp\": \"t1\"}" ->
         JObj([temperature |-> JNum(255), timestamp |-> JStr("t1")])
    [] p = "{\"temperature\": 99.9, \"timestamp\": \"t2\"}" ->
         JObj([temperature |-> JNum(999), timestamp |-> JStr("t2")])
    [] p = "{\"timestamp\": \"t3\"}" ->
         JObj([timestamp |-> JStr("t3")])
    [] p = "{\"temperature\": \"hot\", \"timestamp\": \"t4\"}" ->
         JObj([temperature |-> JStr("hot"), timestamp |-> JStr("t4")])
    [] p = "{\"temperature\": 20.0, \"timestamp\": \"t5\"}" ->
         JObj([temperature |-> JNum(200), timestamp |-> JStr("t5")])
    [] p = "{\"temperature\": \"80\", \"timestamp\": \"t6\"}" ->
         JObj([temperature |-> JStr("80"), timestamp |-> JStr("t6")])
    [] p = "{\"temperature\": 30.0, \"timestamp\": \"t7\"}" ->
         JObj([temperature |-> JNum(300), timestamp |-> JStr("t7")])
    [] p = "{\"temperature\": null, \"timestamp\": \"caf\"}" ->
         JObj([temperature |-> JNull, timestamp |-> JStr("caf")])
    [] p = "{\"temperature\": 30.0}" ->
         JObj([temperature |-> JNum(300)])
    [] p = "{\"temperature\": 19.9, \"timestamp\": \"t8\"}" ->
         JObj([temperature |-> JNum(199), timestamp |-> JStr("t8")])
    [] p = "{\"temperature\": 80.1, \"timestamp\": \"t9\"}" ->
         JObj([temperature |-> JNum(801), timestamp |-> JStr("t9")])
    [] p = "7" -> JNum(70)
    [] OTHER -> JError

\* float(x): a number, or a string that spells one; ValueError for any
\* other string, TypeError for null or a container
Float(x) ==
  CASE x.kind = "number" -> [exc |-> "none", value |-> x.num]
    [] x.kind = "string" /\ x.text = "80" -> [exc |-> "none", value |-> 800]
    [] x.kind = "string" /\ x.text # "80" -> [exc |-> "ValueError", value |-> 0]
    [] OTHER -> [exc |-> "TypeError", value |-> 0]

NoReading == [temperature |-> 0, timestamp |-> JNull]

\* obj = json.loads(payload)
\* r = TemperatureReading(float(obj["temperature"]), obj["timestamp"])
MapPayload(p) ==
  LET obj == JsonLoads(p)
  IN  IF obj.kind = "error" THEN [exc |-> "JSONDecodeError", r |-> NoReading]
      ELSE IF obj.kind # "object" THEN [exc |-> "TypeError", r |-> NoReading]
      ELSE IF "temperature" \notin DOMAIN obj.members
           THEN [exc |-> "KeyError", r |-> NoReading]
      ELSE LET f == Float(obj.members["temperature"])
           IN  IF f.exc # "none" THEN [exc |-> f.exc, r |-> NoReading]
               ELSE IF "timestamp" \notin DOMAIN obj.members
                    THEN [exc |-> "KeyError", r |-> NoReading]
               ELSE [exc |-> "none",
                     r |-> [temperature |-> f.value,
                            timestamp |-> obj.members["timestamp"]]]

\* a narrower handler: except ValueError (JSONDecodeError derives from it)
CaughtValueError(e) == e \in {"JSONDecodeError", "ValueError"}

\* except Exception: every exception the mapping can raise derives from
\* it, and so does CallbackError, the exception a callback raises
CaughtByExcept(e) ==
  e \in {"JSONDecodeError", "KeyError", "ValueError", "TypeError", "CallbackError"}

\* on_event is handle_event (lines 180-197): monitor.add_reading(reading)
HandleEvent(rs, r) == Append(rs, r)

\* the body of "for ln in lines" from the k-th data: payload of one frame
\* on: the store after it, and the exception that left the loop, if any
RECURSIVE DeliverFrom(_, _, _)
DeliverFrom(payloads, k, rs) ==
  IF k > Len(payloads) THEN [readings |-> rs, raised |-> "none"]
  ELSE IF MapPayload(payloads[k]).exc = "none"
       THEN DeliverFrom(payloads, k + 1, HandleEvent(rs, MapPayload(payloads[k]).r))
       ELSE IF CaughtByExcept(MapPayload(payloads[k]).exc)
            THEN DeliverFrom(payloads, k + 1, rs)
            ELSE [readings |-> rs, raised |-> MapPayload(payloads[k]).exc]

Deliver(payloads, rs) == DeliverFrom(payloads, 1, rs)

\* ch = chunk.decode("utf-8") of a one-byte chunk fails for a byte >= 0x80
Decodable(chunk) == Len(chunk) = 1

\* lines 148-166 (stream: 107-127) for one chunk: skip an empty or an
\* undecodable chunk, else append it and handle a completed frame
ProcessChunk(buf, rs, chunk) ==
  IF chunk = "" \/ ~Decodable(chunk)
  THEN [buffer |-> buf, readings |-> rs, raised |-> "none"]
  ELSE Only({[buffer |-> IF fd[2].raised = "none" THEN fd[1].buffer ELSE buf \o chunk,
               readings |-> fd[2].readings, raised |-> fd[2].raised] :
               fd \in {<<f, Deliver(f.payloads, rs)>> : f \in {Feed(buf, chunk)}}})

(***************************************************************************)
(* The server side of GET /stream: what one response can carry             *)
(***************************************************************************)
\* the one-byte chunks of an ASCII text
Bytes(s) == [i \in 1..Len(s) |-> Char(s, i)]

\* the literal two-event stream
StreamTwoEvents ==
  Bytes("data: {\"temperature\": 25.5, \"timestamp\": \"t1\"}\n\n")
  \o Bytes("data: {\"temperature\": 99.9, \"timestamp\": \"t2\"}\n\n")

\* one frame with four malformed payloads before a valid one, a frame
\* without data: line, then a frame whose temperature is a numeric string
StreamMalformed ==
  Bytes("data: oops\ndata: {\"timestamp\": \"t3\"}\n")
  \o Bytes("data: {\"temperature\": 30.0}\n")
  \o Bytes("data: {\"temperature\": \"hot\", \"timestamp\": \"t4\"}\n")
  \o Bytes("data: {\"temperature\": 20.0, \"timestamp\": \"t5\"}\n\n")
  \o Bytes(": hb\n\n")
  \o Bytes("data: {\"temperature\": \"80\", \"timestamp\": \"t6\"}\n\n")

\* a data: line that is never followed by the frame terminator
StreamUnterminated ==
  Bytes("id: 9\r\ndata: {\"temperature\": 30.0, \"timestamp\": \"t7\"}\nda")

\* an empty chunk, and a two-byte UTF-8 character delivered byte by byte
StreamNonAscii ==
  <<"">> \o Bytes("data: {\"temperature\": null, \"timestamp\": \"caf")
  \o <<"C3", "A9">> \o Bytes("\"}\n\n")

\* a frame with two data: lines, then a frame with one
StreamMultiData ==
  Bytes("data: {\"temperature\": 25.5, \"timestamp\": \"t1\"}\n")
  \o Bytes("data: {\"temperature\": 99.9, \"timestamp\": \"t2\"}\n\n")
  \o Bytes("data: {\"temperature\": 20.0, \"timestamp\": \"t5\"}\n\n")

\* the bodies a 200 response can carry
Streams == {StreamTwoEvents, StreamMalformed, StreamUnterminated, StreamNonAscii}

\* the bodies of the specification that states fairness
LiveStreams == {StreamUnterminated, StreamNonAscii}

\* status codes of the endpoint
Statuses == {200, 500}

\* requests.get fails before any response
ConnectErrors == {"ConnectTimeout"}

\* iter_content fails while reading the body
ReadErrors == {"ConnectionError"}

(***************************************************************************)
(* State                                                                   *)
(***************************************************************************)
VARIABLES
  pc,        \* position of the thread in stream_forever (or in stream)
  stop,      \* stop_event.is_set()
  resp,      \* "open" while the response of requests.get is not closed
  status,    \* resp.status_code
  wire,      \* chunks the server will still send on the open connection
  chunk,     \* loop variable of "for chunk in resp.iter_content(...)"
  buffer,    \* local variable buffer
  exc,       \* exception in flight, "none" if there is none
  readings,  \* monitor.readings
  conns,     \* history: calls of requests.get
  rx,        \* history: text appended to buffer on this connection
  base,      \* history: len(monitor.readings) when this connection opened
  observed,  \* history: the read loop or the handler found the stop set
  dropped,   \* history: a connection ended with unterminated text buffered
  connsAfterStop,  \* history: requests.get calls started with the stop set
  readsAfterStop,  \* history: reads started with the stop set
  dIn,       \* decoder run: the payloads of the events of the stream
  dRest,     \* decoder run: text of the stream not yet received
  dBuffer,   \* decoder run: local variable buffer
  dOut,      \* decoder run: payloads obtained at line 119 / 159 so far
  dChunks,   \* decoder run: chunks received so far
  nOpen,     \* history: responses of requests.get opened and not yet closed
  backedOff, \* history: time.sleep(1) has returned since the last requests.get
  setAgain,  \* history: stop_event.set() was called on the set event
  stopAfter, \* stream: argument stop_after, 0 for None
  timeout,   \* stream: argument timeout in clock ticks, 0 for None
  raiseAt,   \* stream: the calls of on_event (by number) that raise
  stalls,    \* stream: the server keeps the connection open after the body
  eventCount,\* stream: local variable event_count
  clock,     \* stream: time.time() - start, in ticks
  calls,     \* stream: history, calls of on_event so far
  mpc,       \* menu: position of the main thread
  sessions,  \* menu: history, streaming sessions started
  orphans,   \* menu: threads of earlier sessions that are still alive
  printed,   \* menu: the count printed at line 273, -1 before any
  shown      \* menu: the listing printed by option 4 or 5

dec == <<dIn, dRest, dBuffer, dOut, dChunks>>

aux == <<nOpen, backedOff, setAgain>>

bnd == <<stopAfter, timeout, raiseAt, stalls, eventCount, clock, calls>>

menu == <<mpc, sessions, orphans, printed, shown>>

vars == <<pc, stop, resp, status, wire, chunk, buffer, exc, readings, conns,
          rx, base, observed, dropped, connsAfterStop, readsAfterStop, dec,
          aux, bnd, menu>>

hist == <<conns, rx, base, observed, dropped, connsAfterStop, readsAfterStop>>

\* stream_forever is about to run; no decoder run
Session ==
  /\ pc = "while"
  /\ stop = FALSE
  /\ resp = "none"
  /\ status = 0
  /\ wire = <<>>
  /\ chunk = ""
  /\ buffer = ""
  /\ exc = "none"
  /\ readings = <<>>
  /\ conns = 0
  /\ rx = ""
  /\ base = 0
  /\ observed = FALSE
  /\ dropped = FALSE
  /\ connsAfterStop = 0
  /\ readsAfterStop = 0
  /\ nOpen = 0
  /\ backedOff = FALSE
  /\ setAgain = FALSE

NoDecoderRun ==
  /\ dIn = <<>>
  /\ dRest = ""
  /\ dBuffer = ""
  /\ dOut = <<>>
  /\ dChunks = 0

\* stream() is not called
NoBoundedRun ==
  /\ stopAfter = 0
  /\ timeout = 0
  /\ raiseAt = {}
  /\ stalls = FALSE
  /\ eventCount = 0
  /\ clock = 0
  /\ calls = 0

\* no menu loop: stream_forever is called directly
NoMenu ==
  /\ mpc = "none"
  /\ sessions = 0
  /\ orphans = <<>>
  /\ printed = -1
  /\ shown = <<>>

Init == Session /\ NoDecoderRun /\ NoBoundedRun /\ NoMenu

(***************************************************************************)
(* ApiClient.stream_forever (lines 133-172)                                *)
(***************************************************************************)
\* a loop that relies on its breaks alone: while True
LoopConditionAlways == TRUE

\* while not stop_event.is_set()
LoopCondition == ~stop

\* a read loop that never looks at the stop event
StopRequestedNever == FALSE

\* if stop_event.is_set(): break  (line 146)
StopRequested == stop

\* if stop_event.is_set(): break  (line 168)
StopRequestedInHandler == stop

\* a handler for connection failures only (except ConnectionError, Timeout)
IsConnectionFailure(e) == e \in {"ConnectTimeout", "ConnectionError"}

\* requests.exceptions.RequestException and its subclasses
IsRequestException(e) ==
  e \in {"ConnectTimeout", "ConnectionError", "HTTPError"}

\* raise_for_status raises HTTPError for a 4xx or 5xx status
IsErrorStatus(st) == 400 <= st /\ st < 600

\* the buffer initialised once, before the while loop
StaleBuffer == buffer

\* buffer = ""  (line 144)
FreshBuffer == ""

\* a handler that retries at once: continue without time.sleep(1)
AfterHandlerNoSleep == "while"

\* where the handler goes when the stop is not set: time.sleep(1) (line 171)
AfterHandler == "sleep"

\* a with block that leaves the response open
WithExitLeak(n) == n

\* leaving "with requests.get(...) as resp" closes the response
WithExit(n) == n - 1

\* line 140: the loop test
LoopTest ==
  /\ pc = "while"
  /\ stop \/ conns < MaxConns
  /\ pc' = IF LoopCondition THEN "get" ELSE "done"
  /\ UNCHANGED <<stop, resp, status, wire, chunk, buffer, exc, readings, hist, aux>>
  /\ UNCHANGED <<dec, bnd, menu>>

\* line 142: requests.get(url, stream=True, timeout=(3.05, 10))
Get ==
  /\ pc = "get"
  /\ conns' = conns + 1
  /\ connsAfterStop' = connsAfterStop + (IF stop THEN 1 ELSE 0)
  /\ backedOff' = FALSE
  /\ \/ \E e \in ConnectErrors :
          /\ exc' = e
          /\ pc' = "except"
          /\ UNCHANGED <<resp, status, nOpen>>
     \/ \E st \in Statuses :
          /\ resp' = "open"
          /\ nOpen' = nOpen + 1
          /\ status' = st
          /\ pc' = "status"
          /\ exc' = exc
  /\ UNCHANGED <<stop, wire, chunk, buffer, readings, rx, base, observed,
                 dropped, readsAfterStop, setAgain>>
  /\ UNCHANGED <<dec, bnd, menu>>

\* lines 143-145: resp.raise_for_status(); buffer = ""; the first read
\* starts, on a body among bodies
RaiseForStatusOn(bodies) ==
  /\ pc = "status"
  /\ IF IsErrorStatus(status)
     THEN /\ exc' = "HTTPError"
          /\ resp' = "none"
          /\ nOpen' = WithExit(nOpen)
          /\ pc' = "except"
          /\ UNCHANGED <<wire, buffer, rx, base, readsAfterStop>>
     ELSE /\ \E w \in bodies : wire' = w
          /\ buffer' = FreshBuffer
          /\ rx' = ""
          /\ base' = Len(readings)
          /\ readsAfterStop' = readsAfterStop + (IF stop THEN 1 ELSE 0)
          /\ pc' = "read"
          /\ UNCHANGED <<exc, resp, nOpen>>
  /\ UNCHANGED <<stop, status, chunk, readings, conns, observed, dropped,
                 connsAfterStop, backedOff, setAgain>>
  /\ UNCHANGED <<dec, bnd, menu>>

RaiseForStatus == RaiseForStatusOn(Streams)

\* line 145: the pending read of iter_content(chunk_size=1) returns a chunk,
\* or the body ends, or the read fails; leaving the with block closes resp
Read ==
  /\ pc = "read"
  /\ \/ /\ wire # <<>>
        /\ chunk' = Head(wire)
        /\ wire' = Tail(wire)
        /\ pc' = "check"
        /\ UNCHANGED <<resp, exc, dropped, nOpen>>
     \/ /\ resp' = "none"
        /\ nOpen' = WithExit(nOpen)
        /\ wire' = <<>>
        /\ pc' = "while"
        /\ dropped' = (dropped \/ buffer # "")
        /\ UNCHANGED <<chunk, exc>>
     \/ \E e \in ReadErrors :
          /\ exc' = e
          /\ resp' = "none"
          /\ nOpen' = WithExit(nOpen)
          /\ wire' = <<>>
          /\ pc' = "except"
          /\ dropped' = (dropped \/ buffer # "")
          /\ UNCHANGED chunk
  /\ UNCHANGED <<stop, status, buffer, readings, conns, rx, base, observed,
                 connsAfterStop, readsAfterStop, backedOff, setAgain>>
  /\ UNCHANGED <<dec, bnd, menu>>

\* the stop check with continue in place of break
StopCheckContinue ==
  /\ pc = "check"
  /\ pc' = IF stop THEN "read" ELSE "body"
  /\ observed' = (observed \/ stop)
  /\ UNCHANGED <<stop, resp, wire, status, chunk, buffer, exc, readings, conns,
                 rx, base, dropped, connsAfterStop, readsAfterStop, aux>>
  /\ UNCHANGED <<dec, bnd, menu>>

\* lines 146-147: the stop check on the received chunk
StopCheck ==
  /\ pc = "check"
  /\ IF StopRequested
     THEN /\ resp' = "none"
          /\ nOpen' = WithExit(nOpen)
          /\ wire' = <<>>
          /\ pc' = "while"
          /\ observed' = TRUE
          /\ dropped' = (dropped \/ buffer # "")
     ELSE /\ pc' = "body"
          /\ UNCHANGED <<resp, wire, observed, dropped, nOpen>>
  /\ UNCHANGED <<stop, status, chunk, buffer, exc, readings, conns, rx, base,
                 connsAfterStop, readsAfterStop, backedOff, setAgain>>
  /\ UNCHANGED <<dec, bnd, menu>>

\* lines 148-166: the chunk is processed and the next read starts
Body ==
  /\ pc = "body"
  /\ \E p \in {ProcessChunk(buffer, readings, chunk)} :
         /\ buffer' = p.buffer
         /\ readings' = p.readings
         /\ rx' = IF chunk = "" \/ ~Decodable(chunk) THEN rx ELSE rx \o chunk
         /\ IF p.raised = "none"
            THEN /\ pc' = "read"
                 /\ readsAfterStop' = readsAfterStop + (IF stop THEN 1 ELSE 0)
                 /\ UNCHANGED <<exc, resp, wire, nOpen>>
            ELSE /\ exc' = p.raised
                 /\ resp' = "none"
                 /\ nOpen' = WithExit(nOpen)
                 /\ wire' = <<>>
                 /\ pc' = "except"
                 /\ UNCHANGED readsAfterStop
  /\ UNCHANGED <<stop, status, chunk, conns, base, observed, dropped,
                 connsAfterStop, backedOff, setAgain>>
  /\ UNCHANGED <<dec, bnd, menu>>

\* lines 167-171: except requests.exceptions.RequestException
Except ==
  /\ pc = "except"
  /\ exc' = "none"
  /\ IF IsRequestException(exc)
     THEN IF StopRequestedInHandler
          THEN /\ pc' = "done"
               /\ observed' = TRUE
          ELSE /\ pc' = AfterHandler
               /\ UNCHANGED observed
     ELSE /\ pc' = "raised"
          /\ UNCHANGED observed
  /\ UNCHANGED <<stop, resp, status, wire, chunk, buffer, readings, conns, rx,
                 base, dropped, connsAfterStop, readsAfterStop, aux>>
  /\ UNCHANGED <<dec, bnd, menu>>

\* lines 171-172: time.sleep(1) returns; continue
Sleep ==
  /\ pc = "sleep"
  /\ pc' = "while"
  /\ backedOff' = TRUE
  /\ UNCHANGED <<stop, resp, status, wire, chunk, buffer, exc, readings, hist,
                 nOpen, setAgain>>
  /\ UNCHANGED <<dec, bnd, menu>>

\* the thread of stream_forever
Supervisor ==
  LoopTest \/ Get \/ RaiseForStatus \/ Read \/ StopCheck \/ Body \/ Except \/ Sleep

\* a flag that set() flips
SetStopToggle ==
  /\ stop' = ~stop
  /\ setAgain' = (setAgain \/ stop)
  /\ UNCHANGED <<pc, resp, status, wire, chunk, buffer, exc, readings, hist,
                 nOpen, backedOff>>
  /\ UNCHANGED <<dec, bnd, menu>>

\* line 271: the caller's stop_event.set()
SetStop ==
  /\ stop' = TRUE
  /\ setAgain' = (setAgain \/ stop)
  /\ UNCHANGED <<pc, resp, status, wire, chunk, buffer, exc, readings, hist,
                 nOpen, backedOff>>
  /\ UNCHANGED <<dec, bnd, menu>>

Next == Supervisor \/ SetStop

Spec == Init /\ [][Next]_vars

(***************************************************************************)
(* The same program under fair scheduling: the thread keeps running, every *)
(* pending read returns a chunk or fails (read timeout 10 s), the sleep    *)
(* ends.  The server's bodies are LiveStreams.                             *)
(***************************************************************************)
RaiseForStatusLive == RaiseForStatusOn(LiveStreams)

SupervisorLive ==
  LoopTest \/ Get \/ RaiseForStatusLive \/ Read \/ StopCheck \/ Body \/ Except \/ Sleep

NextLive == SupervisorLive \/ SetStop

SpecLive == Init /\ [][NextLive]_vars /\ WF_vars(SupervisorLive)

(***************************************************************************)
(* The decode loop alone (stream lines 113-127, stream_forever lines       *)
(* 154-166) on a well-formed stream cut into chunks of any sizes           *)
(***************************************************************************)
\* payload texts of the events: opaque to the decoder, no surrounding space
EventPayloads == {"7", "{\"t\": 1}"}

\* the streams of 1..MaxEvents events
EventLists == UNION {[1..n -> EventPayloads] : n \in 1..MaxEvents}

\* one event: its data: line and the blank line
EventText(p) == "data: " \o p \o "\n\n"

\* the text of the stream of the events from the k-th on
RECURSIVE StreamTextFrom(_, _)
StreamTextFrom(ps, k) ==
  IF k > Len(ps) THEN "" ELSE EventText(ps[k]) \o StreamTextFrom(ps, k + 1)

InitDecoder ==
  /\ Session
  /\ NoBoundedRun
  /\ NoMenu
  /\ dIn \in EventLists
  /\ dRest = StreamTextFrom(dIn, 1)
  /\ dBuffer = ""
  /\ dOut = <<>>
  /\ dChunks = 0

\* one iteration of the for loop on a chunk of n characters
FeedChunk ==
  /\ dRest # ""
  /\ \E n \in 1..Len(dRest) :
       \E f \in {Feed(dBuffer, SubSeq(dRest, 1, n))} :
         /\ dBuffer' = f.buffer
         /\ dOut' = dOut \o f.payloads
         /\ dRest' = SubSeq(dRest, n + 1, Len(dRest))
  /\ dChunks' = dChunks + 1
  /\ UNCHANGED <<dIn, pc, stop, resp, status, wire, chunk, buffer, exc, readings, hist>>
  /\ UNCHANGED <<aux, bnd, menu>>

NextDecoder == FeedChunk

SpecDecoder == InitDecoder /\ [][NextDecoder]_vars

(***************************************************************************)
(* ApiClient.stream (lines 94-131): one connection, optionally bounded by  *)
(* stop_after and timeout.  on_event is any callable: call number n raises *)
(* CallbackError if n is in raiseAt, and stores the reading otherwise.     *)
(***************************************************************************)
\* the bodies a 200 response to stream can carry
BoundedStreams == {StreamTwoEvents, StreamMultiData, StreamNonAscii}

\* on_event(r), call number n, with the calls in ra raising
OnEvent(rs, r, n, ra) ==
  IF n \in ra THEN [exc |-> "CallbackError", readings |-> rs]
  ELSE [exc |-> "none", readings |-> Append(rs, r)]

\* event_count incremented before on_event is called
CountsCallAlways(e) == TRUE

\* line 124 is reached only when on_event (line 123) returned
CountsCall(e) == e = "none"

\* lines 117-126 from the k-th data: payload of one frame on; st holds
\* readings, eventCount, calls and the exception that left the loop
RECURSIVE CountFrom(_, _, _, _)
CountFrom(payloads, k, st, ra) ==
  IF k > Len(payloads) THEN st
  ELSE LET mp == MapPayload(payloads[k])
       IN  IF mp.exc # "none"
           THEN IF CaughtByExcept(mp.exc)
                THEN CountFrom(payloads, k + 1, st, ra)
                ELSE [st EXCEPT !.raised = mp.exc]
           ELSE LET cb == OnEvent(st.readings, mp.r, st.calls + 1, ra)
                    after == [readings |-> cb.readings,
                              eventCount |-> st.eventCount
                                             + (IF CountsCall(cb.exc) THEN 1 ELSE 0),
                              calls |-> st.calls + 1,
                              raised |-> "none"]
                IN  IF cb.exc = "none" \/ CaughtByExcept(cb.exc)
                    THEN CountFrom(payloads, k + 1, after, ra)
                    ELSE [after EXCEPT !.raised = cb.exc]

\* if stop_after and event_count >= stop_after  (line 128)
CountReached(n, count) == n # 0 /\ count >= n

\* if timeout and (time.time() - start) >= timeout  (line 130)
DeadlinePassed(t, now) == t # 0 /\ now >= t

\* stream is about to be called with some stop_after, timeout and callback
InitBoundedOn(counts, timeouts, raising) ==
  /\ pc = "get"
  /\ stop = FALSE
  /\ resp = "none"
  /\ status = 0
  /\ wire = <<>>
  /\ chunk = ""
  /\ buffer = ""
  /\ exc = "none"
  /\ readings = <<>>
  /\ conns = 0
  /\ rx = ""
  /\ base = 0
  /\ observed = FALSE
  /\ dropped = FALSE
  /\ connsAfterStop = 0
  /\ readsAfterStop = 0
  /\ nOpen = 0
  /\ backedOff = FALSE
  /\ setAgain = FALSE
  /\ stopAfter \in counts
  /\ timeout \in timeouts
  /\ raiseAt \in raising
  /\ stalls = FALSE
  /\ eventCount = 0
  /\ clock = 0
  /\ calls = 0
  /\ NoDecoderRun
  /\ NoMenu

InitBounded == InitBoundedOn(0..MaxCount, 0..MaxClock, SUBSET (1..MaxCount))

\* line 101: requests.get(url, stream=True, timeout=(3.05, None)); no
\* handler: an exception leaves stream
StreamGet ==
  /\ pc = "get"
  /\ conns' = conns + 1
  /\ \/ \E e \in ConnectErrors :
          /\ exc' = e
          /\ pc' = "raised"
          /\ UNCHANGED <<resp, status, nOpen>>
     \/ \E st \in Statuses :
          /\ resp' = "open"
          /\ nOpen' = nOpen + 1
          /\ status' = st
          /\ pc' = "status"
          /\ exc' = exc
  /\ UNCHANGED <<stop, wire, chunk, buffer, readings, rx, base, observed,
                 dropped, connsAfterStop, readsAfterStop, backedOff, setAgain>>
  /\ UNCHANGED <<dec, bnd, menu>>

\* lines 102-106: resp.raise_for_status(); event_count = 0; start; buffer =
\* ""; the first read starts, on a body among bodies, which the server
\* ends by closing the connection or by keeping it open and silent
StreamRaiseForStatusOn(bodies) ==
  /\ pc = "status"
  /\ IF IsErrorStatus(status)
     THEN /\ exc' = "HTTPError"
          /\ resp' = "none"
          /\ nOpen' = WithExit(nOpen)
          /\ pc' = "raised"
          /\ UNCHANGED <<wire, buffer, rx, base, stalls, eventCount, clock>>
     ELSE /\ \E w \in bodies : wire' = w
          /\ stalls' \in BOOLEAN
          /\ eventCount' = 0
          /\ clock' = 0
          /\ buffer' = ""
          /\ rx' = ""
          /\ base' = Len(readings)
          /\ pc' = "read"
          /\ UNCHANGED <<exc, resp, nOpen>>
  /\ UNCHANGED <<stop, status, chunk, readings, conns, observed, dropped,
                 connsAfterStop, readsAfterStop, backedOff, setAgain>>
  /\ UNCHANGED <<stopAfter, timeout, raiseAt, calls>>
  /\ UNCHANGED <<dec, menu>>

StreamRaiseForStatus == StreamRaiseForStatusOn(BoundedStreams)

\* line 106: the pending read returns a chunk, or the server closes the
\* body, or the read fails; there is no read timeout, so on a connection
\* the server keeps open and silent the read stays pending
StreamRead ==
  /\ pc = "read"
  /\ \/ /\ wire # <<>>
        /\ chunk' = Head(wire)
        /\ wire' = Tail(wire)
        /\ pc' = "body"
        /\ UNCHANGED <<resp, exc, nOpen>>
     \/ /\ wire = <<>> /\ ~stalls
        /\ resp' = "none"
        /\ nOpen' = WithExit(nOpen)
        /\ pc' = "done"
        /\ UNCHANGED <<chunk, exc, wire>>
     \/ /\ ~(wire = <<>> /\ stalls)
        /\ \E e \in ReadErrors : exc' = e
        /\ resp' = "none"
        /\ nOpen' = WithExit(nOpen)
        /\ wire' = <<>>
        /\ pc' = "raised"
        /\ UNCHANGED chunk
  /\ UNCHANGED <<stop, status, buffer, readings, conns, rx, base, observed,
                 dropped, connsAfterStop, readsAfterStop, backedOff, setAgain>>
  /\ UNCHANGED <<dec, bnd, menu>>

\* lines 107-131: the chunk is processed, then the two bounds are tested;
\* an empty or undecodable chunk skips the tests (continue)
StreamBody ==
  /\ pc = "body"
  /\ IF chunk = "" \/ ~Decodable(chunk)
     THEN /\ pc' = "read"
          /\ UNCHANGED <<buffer, readings, rx, eventCount, calls, exc, resp,
                         nOpen, wire>>
     ELSE \E f \in {Feed(buffer, chunk)} :
          \E st \in {CountFrom(f.payloads, 1,
                                [readings |-> readings, eventCount |-> eventCount,
                                 calls |-> calls, raised |-> "none"], raiseAt)} :
            /\ rx' = rx \o chunk
            /\ readings' = st.readings
            /\ eventCount' = st.eventCount
            /\ calls' = st.calls
            /\ IF st.raised # "none"
               THEN /\ buffer' = buffer \o chunk
                    /\ exc' = st.raised
                    /\ resp' = "none"
                    /\ nOpen' = WithExit(nOpen)
                    /\ wire' = <<>>
                    /\ pc' = "raised"
               ELSE /\ buffer' = f.buffer
                    /\ exc' = exc
                    /\ IF \/ CountReached(stopAfter, st.eventCount)
                          \/ DeadlinePassed(timeout, clock)
                       THEN /\ resp' = "none"
                            /\ nOpen' = WithExit(nOpen)
                            /\ wire' = <<>>
                            /\ pc' = "done"
                       ELSE /\ pc' = "read"
                            /\ UNCHANGED <<resp, nOpen, wire>>
  /\ UNCHANGED <<stop, status, chunk, conns, base, observed, dropped,
                 connsAfterStop, readsAfterStop, backedOff, setAgain>>
  /\ UNCHANGED <<stopAfter, timeout, raiseAt, stalls, clock>>
  /\ UNCHANGED <<dec, menu>>

\* the thread that called stream
StreamCall == StreamGet \/ StreamRaiseForStatus \/ StreamRead \/ StreamBody

\* time.time() advances while stream runs
Tick ==
  /\ pc \in {"read", "body"}
  /\ clock < MaxClock
  /\ clock' = clock + 1
  /\ UNCHANGED <<pc, stop, resp, status, wire, chunk, buffer, exc, readings,
                 hist, aux, dec, menu>>
  /\ UNCHANGED <<stopAfter, timeout, raiseAt, stalls, eventCount, calls>>

NextBounded == StreamCall \/ Tick

SpecBounded == InitBounded /\ [][NextBounded]_vars

(***************************************************************************)
(* stream with a timeout under fair scheduling: the calling thread keeps   *)
(* running and time passes.  A read stays pending for as long as the       *)
(* server sends nothing on the open connection (read timeout None).        *)
(***************************************************************************)
\* one event
StreamOneEvent ==
  Bytes("data: {\"temperature\": 20.0, \"timestamp\": \"t5\"}\n\n")

LiveBoundedStreams == {StreamOneEvent}

InitBoundedLive == InitBoundedOn({0}, 1..MaxClock, {{}})

StreamRaiseForStatusLive == StreamRaiseForStatusOn(LiveBoundedStreams)

StreamCallLive ==
  StreamGet \/ StreamRaiseForStatusLive \/ StreamRead \/ StreamBody

NextBoundedLive == StreamCallLive \/ Tick

SpecBoundedLive ==
  InitBoundedLive /\ [][NextBoundedLive]_vars
  /\ WF_vars(StreamCallLive) /\ WF_vars(Tick)

(***************************************************************************)
(* The menu program (lines 176-289): the main thread reads choices; option *)
(* 2 starts stream_forever(handle_event, stop_event) in a daemon thread,   *)
(* waits for ENTER, sets the event, and joins the thread for at most 5 s.  *)
(* pc and the other variables of stream_forever describe the thread of the *)
(* latest session; orphans holds the threads of earlier sessions that were *)
(* still alive when a new session started.  Options 1 and 3 and an invalid *)
(* choice print what /history returns, or a message, and change nothing    *)
(* of the monitor or the threads: they are steps that leave vars unchanged.*)
(* Options 4 and 5 print a listing of the monitor's readings; they are     *)
(* actions of the specification of the monitor below.                      *)
(***************************************************************************)
\* monitor = TemperatureMonitor(safe_min=20.0, safe_max=80.0), in tenths
SafeMin == 200
SafeMax == 800

\* check_safety (lines 57-59)
CheckSafety(rs) ==
  SelectSeq(rs, LAMBDA r : r.temperature < SafeMin \/ r.temperature > SafeMax)

\* the alert handle_event prints for a temperature (lines 187-195)
EventAlert(t) ==
  IF t < SafeMin THEN "BELOW safe_min"
  ELSE IF t > SafeMax THEN "ABOVE safe_max"
  ELSE IF t = SafeMin \/ t = SafeMax THEN "REACHED boundary"
  ELSE ""

\* show_cold_violations (line 232)
ColdViolations(rs) == SelectSeq(rs, LAMBDA r : r.temperature <= SafeMin)

\* show_hot_violations (line 241)
HotViolations(rs) == SelectSeq(rs, LAMBDA r : r.temperature >= SafeMax)

\* the bodies a 200 response carries while the menu runs
MenuStreams == {StreamOneEvent}

\* a threading.Thread is alive from start() until its target returns or
\* raises
Alive(p) == p \notin {"idle", "done", "raised", "exit"}

\* seq without its i-th element
RemoveAt(seq, i) == SubSeq(seq, 1, i - 1) \o SubSeq(seq, i + 1, Len(seq))

\* lines 176-178 and 249: the menu is shown, no thread has been started
InitMenu ==
  /\ pc = "idle"
  /\ stop = FALSE
  /\ resp = "none"
  /\ status = 0
  /\ wire = <<>>
  /\ chunk = ""
  /\ buffer = ""
  /\ exc = "none"
  /\ readings = <<>>
  /\ conns = 0
  /\ rx = ""
  /\ base = 0
  /\ observed = FALSE
  /\ dropped = FALSE
  /\ connsAfterStop = 0
  /\ readsAfterStop = 0
  /\ nOpen = 0
  /\ backedOff = FALSE
  /\ setAgain = FALSE
  /\ mpc = "menu"
  /\ sessions = 0
  /\ orphans = <<>>
  /\ printed = -1
  /\ shown = <<>>
  /\ NoDecoderRun
  /\ NoBoundedRun

\* option 4 (lines 231-238)
ShowCold ==
  /\ mpc = "menu"
  /\ shown' = ColdViolations(readings)
  /\ UNCHANGED <<pc, stop, resp, status, wire, chunk, buffer, exc, readings,
                 hist, aux, dec, bnd, mpc, sessions, orphans, printed>>

\* option 5 (lines 240-247)
ShowHot ==
  /\ mpc = "menu"
  /\ shown' = HotViolations(readings)
  /\ UNCHANGED <<pc, stop, resp, status, wire, chunk, buffer, exc, readings,
                 hist, aux, dec, bnd, mpc, sessions, orphans, printed>>

\* option 2, lines 263-266: a new Event, a new daemon thread running
\* stream_forever, started; t and stop_event now name the new objects,
\* whatever the thread of the session before is doing
StartStream ==
  /\ mpc = "menu"
  /\ sessions < MaxSessions
  /\ sessions' = sessions + 1
  /\ orphans' = IF Alive(pc) THEN Append(orphans, [pc |-> pc, resp |-> resp])
                ELSE orphans
  /\ pc' = "while"
  /\ stop' = FALSE
  /\ resp' = "none"
  /\ status' = 0
  /\ wire' = <<>>
  /\ chunk' = ""
  /\ buffer' = ""
  /\ exc' = "none"
  /\ conns' = 0
  /\ rx' = ""
  /\ base' = 0
  /\ observed' = FALSE
  /\ dropped' = FALSE
  /\ connsAfterStop' = 0
  /\ readsAfterStop' = 0
  /\ nOpen' = 0
  /\ backedOff' = FALSE
  /\ setAgain' = FALSE
  /\ printed' = -1
  /\ mpc' = "input"
  /\ UNCHANGED <<readings, shown, dec, bnd>>

\* lines 267-271: input() returns (or KeyboardInterrupt); stop_event.set()
PressEnter ==
  /\ mpc = "input"
  /\ stop' = TRUE
  /\ mpc' = "join"
  /\ UNCHANGED <<pc, resp, status, wire, chunk, buffer, exc, readings, hist,
                 aux, dec, bnd, sessions, orphans, printed, shown>>

\* line 272: t.join(timeout=5) returns because the thread has ended
JoinEnded ==
  /\ mpc = "join"
  /\ ~Alive(pc)
  /\ mpc' = "print"
  /\ UNCHANGED <<pc, stop, resp, status, wire, chunk, buffer, exc, readings,
                 hist, aux, dec, bnd, sessions, orphans, printed, shown>>

\* line 272: t.join(timeout=5) returns after 5 s with the thread alive:
\* the thread waits in a read, which may take up to the read timeout of
\* 10 s (line 142)
JoinTimeout ==
  /\ mpc = "join"
  /\ pc = "read"
  /\ mpc' = "print"
  /\ UNCHANGED <<pc, stop, resp, status, wire, chunk, buffer, exc, readings,
                 hist, aux, dec, bnd, sessions, orphans, printed, shown>>

\* line 273: print(... len(monitor.readings))
PrintCount ==
  /\ mpc = "print"
  /\ printed' = Len(readings)
  /\ mpc' = "menu"
  /\ UNCHANGED <<pc, stop, resp, status, wire, chunk, buffer, exc, readings,
                 hist, aux, dec, bnd, sessions, orphans, shown>>

\* option 0 (lines 284-286): the process exits, its daemon threads with it
Exit ==
  /\ mpc = "menu"
  /\ mpc' = "exit"
  /\ pc' = IF Alive(pc) THEN "exit" ELSE pc
  /\ resp' = "none"
  /\ nOpen' = 0
  /\ wire' = <<>>
  /\ orphans' = <<>>
  /\ UNCHANGED <<stop, status, chunk, buffer, exc, readings, hist, backedOff,
                 setAgain, dec, bnd, sessions, printed, shown>>

\* the main thread
Menu ==
  \/ StartStream \/ PressEnter \/ JoinEnded
  \/ JoinTimeout \/ PrintCount \/ Exit

\* The thread of an earlier session runs the same stream_forever; its
\* stop_event was set at line 271 before the join, and nothing clears it.
\* line 145 for the i-th such thread: its pending read returns
OrphanRead(i) ==
  /\ orphans[i].pc = "read"
  /\ \/ orphans' = [orphans EXCEPT ![i].pc = "check"]
     \/ orphans' = [orphans EXCEPT ![i].pc = "while", ![i].resp = "none"]
     \/ orphans' = [orphans EXCEPT ![i].pc = "except", ![i].resp = "none"]
  /\ UNCHANGED <<pc, stop, resp, status, wire, chunk, buffer, exc, readings,
                 hist, aux, dec, bnd, mpc, sessions, printed, shown>>

\* lines 146-147 for the i-th such thread: its event is set, break
OrphanStopCheck(i) ==
  /\ orphans[i].pc = "check"
  /\ orphans' = [orphans EXCEPT ![i].pc = "while", ![i].resp = "none"]
  /\ UNCHANGED <<pc, stop, resp, status, wire, chunk, buffer, exc, readings,
                 hist, aux, dec, bnd, mpc, sessions, printed, shown>>

\* line 140 (the loop test fails) or lines 168-169 (break) for the i-th
\* such thread: stream_forever returns and the thread ends
OrphanReturn(i) ==
  /\ orphans[i].pc \in {"while", "except"}
  /\ orphans' = RemoveAt(orphans, i)
  /\ UNCHANGED <<pc, stop, resp, status, wire, chunk, buffer, exc, readings,
                 hist, aux, dec, bnd, mpc, sessions, printed, shown>>

Orphan ==
  \E i \in DOMAIN orphans : OrphanRead(i) \/ OrphanStopCheck(i) \/ OrphanReturn(i)

RaiseForStatusMenu == RaiseForStatusOn(MenuStreams)

\* the thread of the latest session
SupervisorMenu ==
  LoopTest \/ Get \/ RaiseForStatusMenu \/ Read \/ StopCheck \/ Body \/ Except \/ Sleep

NextMenu == Menu \/ SupervisorMenu \/ Orphan

SpecMenu == InitMenu /\ [][NextMenu]_vars

(***************************************************************************)
(* The monitor as the menu sees it: handle_event stores the readings the   *)
(* streaming sessions deliver, options 4 and 5 list them.                  *)
(***************************************************************************)
\* payload texts of the events delivered: below, at, inside, at and above
\* the safe interval
MonitorPayloads ==
  { "{\"temperature\": 19.9, \"timestamp\": \"t8\"}",
    "{\"temperature\": 20.0, \"timestamp\": \"t5\"}",
    "{\"temperature\": 25.5, \"timestamp\": \"t1\"}",
    "{\"temperature\": \"80\", \"timestamp\": \"t6\"}",
    "{\"temperature\": 80.1, \"timestamp\": \"t9\"}" }

\* lines 162-163 and 197: the reading of a payload is handed to
\* handle_event, which stores it
Store ==
  /\ mpc = "menu"
  /\ Len(readings) < MaxReadings
  /\ \E p \in MonitorPayloads : readings' = HandleEvent(readings, MapPayload(p).r)
  /\ UNCHANGED <<pc, stop, resp, status, wire, chunk, buffer, exc,
                 hist, aux, dec, bnd, menu>>

NextMonitor == Store \/ ShowCold \/ ShowHot

SpecMonitor == InitMenu /\ [][NextMonitor]_vars

(***************************************************************************)
(* Claims                                                                  *)
(***************************************************************************)
\* connection-level failures (timeout, reset, DNS)
TransportErrors == ConnectErrors \cup ReadErrors

\* C1: once the read loop or the handler has found the stop set,
\* stream_forever calls requests.get no more and does not sleep: it is at
\* the loop test or has returned.
C1_NoRetryOnceStopObserved ==
  [][observed => (conns' = conns /\ pc' \in {"while", "done"})]_vars

\* C1: the read loop found the stop set during a connection, and
\* stream_forever returned
C1_Witness == observed /\ pc = "done" /\ status = 200 /\ rx # ""

\* C2 as claimed: an HTTPError of raise_for_status is not handled by the
\* retry handler; it leaves stream_forever.
C2_ProtocolErrorPropagates ==
  [][(pc = "except" /\ exc = "HTTPError") => pc' \in {"except", "raised"}]_vars

\* C3: once the stop is set stream_forever returns, and from then on it
\* starts at most one read and at most one connection attempt.
C3_BoundedTermination ==
  /\ stop ~> (pc = "done")
  /\ [](readsAfterStop <= 1 /\ connsAfterStop <= 1)

\* C3: returned after one connection attempt and one read that were both
\* started with the stop already set
C3_Witness == pc = "done" /\ readsAfterStop = 1 /\ connsAfterStop = 1

\* C4: a transport error handled with the stop unset leads to the sleep,
\* the sleep to the loop test, the loop test (stop still unset) to
\* requests.get, which is called once; a transport error makes
\* stream_forever return only if the stop is set.
C4_RetryAfterTransportError ==
  [][ /\ (pc = "except" /\ exc \in TransportErrors /\ ~stop')
           => (pc' = "sleep" /\ conns' = conns)
      /\ (pc = "except" /\ exc \in TransportErrors /\ pc' \in {"done", "raised"})
           => stop
      /\ (pc = "sleep") => (pc' \in {"sleep", "while"} /\ conns' = conns)
      /\ (pc = "while" /\ ~stop') => (pc' = "get" /\ conns' = conns)
      /\ (pc = "get") => (pc' = "get" \/ conns' = conns + 1) ]_vars

\* C4: the second consecutive connection failure, the stop unset
C4_Witness ==
  conns = 2 /\ status = 0 /\ pc = "except" /\ exc \in TransportErrors /\ ~stop

\* C5: stream_forever is left only by returning, and only with the stop set.
C5_ReturnsOnlyWhenStopped == pc # "raised" /\ (pc = "done" => stop)

\* C5: returned after a response with an error status and a dropped
\* connection
C5_Witness == pc = "done" /\ status = 500 /\ dropped

\* C6: while a connection is read, the buffer holds only text received on
\* this connection (it is empty before the first chunk).
C6_BufferOfThisConnection ==
  pc \in {"read", "check", "body"} => EndsWith(rx, buffer)

\* C6: a later connection starts after one that ended with text buffered
C6_Witness == dropped /\ conns = 2 /\ pc = "read" /\ rx = "" /\ buffer = ""

\* C10: a chunk whose stop check finds the stop set changes neither the
\* buffer nor the store; the loop is left and the response closed; once
\* the loop is left this way no read starts.
C10_StopCheckedBeforeChunk ==
  [][ /\ (pc = "check" /\ stop)
           => /\ buffer' = buffer /\ readings' = readings /\ rx' = rx
              /\ pc' \in {"check", "while"}
              /\ (pc' = "while" => (resp' = "none" /\ observed'))
      /\ observed
           => /\ readsAfterStop' = readsAfterStop /\ pc' \notin {"read", "check", "body"}
              /\ buffer' = buffer /\ readings' = readings ]_vars

\* C10: the loop was left on a chunk that arrived with text buffered
C10_Witness == observed /\ pc = "while" /\ buffer # "" /\ resp = "none"

\* C7: when a well-formed stream of N events has been received, in chunks
\* of whatever sizes, the payloads obtained are the N payloads in order.
C7_SegmentationIndependent == dRest = "" /\ dIn # <<>> => dOut = dIn

\* C7: a stream of MaxEvents events received in two chunks, so that one
\* chunk held more than one event
C7_Witness ==
  dRest = "" /\ Len(dIn) = MaxEvents /\ dChunks = 2 /\ dOut = dIn /\ dBuffer = ""

\* the readings of the valid payloads among ps, in order
ValidReadings(ps) ==
  Only({[k \in DOMAIN ok |-> MapPayload(ok[k]).r] :
          ok \in {SelectSeq(ps, LAMBDA q : MapPayload(q).exc = "none")}})

\* the data: payloads of a text decoded at once
PayloadsOf(text) == DataPayloads(NonBlankLines(text))

\* what handle_event stored since this connection opened
DeliveredHere == SubSeq(readings, base + 1, Len(readings))

\* a chunk that completed a frame terminator has just been processed
AtTerminator == pc = "read" /\ EndsWith(rx, "\n\n")

\* C8: when a terminator has been processed, the store holds, after what
\* it held when the connection opened, exactly one reading per valid data:
\* line received on this connection, in order of arrival; the store only
\* grows at its end, and only when a chunk completes a frame.
C8_OncePerLineInOrder ==
  /\ [](AtTerminator => DeliveredHere = ValidReadings(PayloadsOf(rx)))
  /\ [][ /\ Len(readings') >= Len(readings)
         /\ SubSeq(readings', 1, Len(readings)) = readings
         /\ readings' # readings => (pc = "body" /\ FrameComplete(buffer \o chunk)) ]_vars

\* C8: the second connection has delivered two readings after the first
\* delivered one and was dropped inside a frame
C8_Witness ==
  AtTerminator /\ conns = 2 /\ dropped /\ base = 1 /\ Len(readings) = 3

\* exceptions of the payload mapping
MappingErrors == {"JSONDecodeError", "KeyError", "ValueError", "TypeError"}

C11_AtMostNCalls == stopAfter >= 1 => calls <= stopAfter

\* C12 as claimed: once the deadline of stream(timeout = t) has passed, the
\* call ends, also on a connection the server keeps open and silent.
C12_ReturnsAfterDeadline ==
  (pc \in {"read", "body"} /\ DeadlinePassed(timeout, clock))
    ~> (pc \in {"done", "raised"})

\* C13 as claimed: when the count of a session has been printed (and no
\* new session started), the session's thread has ended, its response is
\* closed, and the store holds as many readings as were reported.
C13_TerminatedWhenReported ==
  printed # -1 => (~Alive(pc) /\ resp = "none" /\ Len(readings) = printed)

\* C14: only set() changes the stop signal, and only from unset to set,
\* leaving the thread where it is; set() on the set event changes nothing
\* else; once stream_forever has returned it stays returned, with no new
\* requests.get, no open response and no new reading.
C14_StopAbsorbing ==
  [][ /\ stop => stop'
      /\ (stop' # stop \/ setAgain' # setAgain)
           => UNCHANGED <<pc, resp, wire, chunk, buffer, exc, readings, conns, nOpen>>
      /\ pc = "done"
           => (pc' = "done" /\ UNCHANGED <<conns, readings, resp, nOpen>>) ]_vars

\* C14: set() was called again on the set event, and stream_forever has
\* returned after delivering readings
C14_Witness == setAgain /\ stop /\ pc = "done" /\ Len(readings) > 0 /\ conns = 1

\* C15 as claimed: a stored reading whose temperature is safe_min or
\* safe_max is in no list of violations (check_safety, options 4 and 5) and
\* handle_event reports it as a boundary.
C15_BoundaryNotViolation ==
  \A i \in DOMAIN readings :
    readings[i].temperature \in {SafeMin, SafeMax} =>
      /\ \A j \in DOMAIN CheckSafety(readings) : CheckSafety(readings)[j] # readings[i]
      /\ EventAlert(readings[i].temperature) = "REACHED boundary"
      /\ \A j \in DOMAIN shown : shown[j] # readings[i]

\* C16: at most one response is open, an open response is the one being
\* read, and none is open at the loop test, at requests.get, in the
\* handler, in the sleep or after the return.
C16_OneConnectionOpen ==
  /\ nOpen \in {0, 1}
  /\ nOpen = 1 <=> resp = "open"
  /\ pc \in {"while", "get", "except", "sleep", "done", "raised"} => nOpen = 0

\* C16: a second response is open and being read after the first was
\* closed with text buffered
C16_Witness ==
  conns = 2 /\ pc = "read" /\ nOpen = 1 /\ dropped /\ rx # ""

\* C17: a chunk that completes a terminator empties the buffer and
\* delivers the valid data: lines of its frame, none if the frame has
\* none; any other chunk delivers nothing and is kept in the buffer if it
\* decodes; a processed buffer holds no terminator.
C17_BufferResetAtTerminator ==
  /\ [](pc = "read" => ~FrameCompleteAnywhere(buffer))
  /\ [][(pc = "body" /\ pc' # "body")
          => IF Decodable(chunk) /\ EndsWith(buffer \o chunk, "\n\n")
             THEN /\ buffer' = ""
                  /\ readings' = readings \o ValidReadings(PayloadsOf(buffer \o chunk))
             ELSE /\ buffer' = (IF Decodable(chunk) THEN buffer \o chunk ELSE buffer)
                  /\ readings' = readings]_vars

\* C17: the frame without data: line has been processed, after a frame
\* that delivered a reading
C17_Witness ==
  pc = "read" /\ EndsWith(rx, ": hb\n\n") /\ buffer = "" /\ Len(readings) - base = 1

\* C18 as claimed: every requests.get after the first follows a
\* time.sleep(1) that returned after the get before it.
C18_BackOffBeforeReconnect == (pc = "get" /\ conns >= 1) => backedOff

\* the calls of on_event, among the first n, that returned
Returned(n, ra) == {k \in 1..n : k \notin ra}

\* C19: no exception of the callback or of the payload mapping leaves
\* stream; event_count is the number of calls that returned, which is the
\* number of readings the callback stored; when a terminator has been
\* processed on_event has been called once per valid payload received,
\* also after a call that raised; the connection is closed only on a bound.
C19_CallbackErrorDropped ==
  /\ [](pc = "raised" => exc \in TransportErrors \cup {"HTTPError"})
  /\ [](eventCount = Cardinality(Returned(calls, raiseAt))
         /\ Len(readings) = eventCount)
  /\ [](AtTerminator => calls = Len(ValidReadings(PayloadsOf(rx))))
  /\ [][(pc = "body" /\ calls' # calls /\ pc' = "done")
         => (CountReached(stopAfter, eventCount') \/ DeadlinePassed(timeout, clock))]_vars

\* C19: of three calls the first raised; the two that returned reached
\* stop_after = 2 only with the third call
C19_Witness ==
  /\ raiseAt = {1} /\ stopAfter = 2 /\ calls = 3 /\ eventCount = 2
  /\ pc = "done" /\ Len(readings) = 2

\* C20 as claimed: at most one thread running stream_forever is alive.
C20_OneStreamingThread ==
  Len(orphans) + (IF Alive(pc) THEN 1 ELSE 0) <= 1

====
